---- MODULE Spec2Model ----
(***************************************************************************)
(* Model of the Automated Insight Engine: the report pipeline of           *)
(* scripts/generate_report.py (run_report) and the HTTP gateway of         *)
(* scripts/api_server.py (upload, ingest, analyze, generate_report,        *)
(* get_report) over one shared file system.                                *)
(*                                                                         *)
(* Text is modelled as a sequence of one-character strings wherever the    *)
(* code looks inside it (file names, column headers, cells, the narrative);*)
(* an empty cell is a missing value, as pandas.read_csv reads it.          *)
(***************************************************************************)
EXTENDS Integers, Sequences, FiniteSets, TLC

VARIABLES
    fs,         \* the file system: path -> file content (NoFile when absent)
    aiEnabled,  \* AI_ENABLED, fixed when generate_report.py is imported
    req,        \* the request handled last
    resp,       \* its response
    prompt,     \* the aggregates of the last prompt sent to the narrative service
    loaded,     \* history: the content the last request gave pd.read_csv (NoFile: none)
    stored,     \* history: the content of the last upload/ingest answered 200
    procs       \* the requests in flight (stepwise, concurrent specification)

vars == <<fs, aiEnabled, req, resp, prompt, loaded, stored, procs>>

\* ------------------------------------------------------------------ bounds

MaxRows == 2         \* rows of a table of the column-subset family
MaxCycRows == 13     \* rows of a table of the many-labels family
MaxLabels == 12      \* distinct labels a table of the many-labels family cycles through
MaxWorkers == 2       \* server processes handling requests side by side
MaxRequests == 3      \* requests one server process handles in a behaviour

\* ------------------------------------------------------------------- paths

NONE == "None"
CURRENT == "data/current_dataset.csv"
DEFAULT == "data/netflix_titles.csv"
PDF_FILE == "reports/netflix_report.pdf"
PPT_FILE == "reports/netflix_report.pptx"
PlotKeys == <<"top_genres", "top_directors", "rating_distribution",
              "titles_per_year", "type_count", "avg_movie_duration">>
KeySet == {PlotKeys[i] : i \in 1..Len(PlotKeys)}
PlotPath(key) == "reports/" \o key \o ".png"
UploadPath(filename) == "uploads/" \o filename

NoFile == [kind |-> "absent"]
Exists(f, path) == path \in DOMAIN f /\ f[path].kind # "absent"

\* --------------------------------------------------------------- text

Range(s) == {s[i] : i \in 1..Len(s)}
Min(a, b) == IF a < b THEN a ELSE b

DigitVal == [c \in {"0", "1", "2", "3", "4", "5", "6", "7", "8", "9"} |->
             CASE c = "0" -> 0 [] c = "1" -> 1 [] c = "2" -> 2 [] c = "3" -> 3
               [] c = "4" -> 4 [] c = "5" -> 5 [] c = "6" -> 6 [] c = "7" -> 7
               [] c = "8" -> 8 [] c = "9" -> 9]
IsDigit(c) == c \in DOMAIN DigitVal

RECURSIVE ParseDigits(_)
ParseDigits(s) ==
    IF s = <<>> THEN 0
    ELSE 10 * ParseDigits(SubSeq(s, 1, Len(s) - 1)) + DigitVal[s[Len(s)]]

\* str.lower() on the letters that occur in the file names of the model
LowerChar(c) ==
    CASE c = "C" -> "c" [] c = "S" -> "s" [] c = "V" -> "v" [] c = "B" -> "b"
      [] OTHER -> c
Lower(s) == [i \in 1..Len(s) |-> LowerChar(s[i])]

\* str.strip(): leading and trailing blanks removed
Strip(s) ==
    LET solid == {i \in 1..Len(s) : s[i] # " "}
    IN  IF solid = {} THEN <<>>
        ELSE LET lo == CHOOSE i \in solid : \A j \in solid : i <= j
                 hi == CHOOSE i \in solid : \A j \in solid : i >= j
             IN  SubSeq(s, lo, hi)

\* str.rfind(c), 1-based; 0 when c does not occur
RFind(s, c) ==
    LET at == {i \in 1..Len(s) : s[i] = c}
    IN  IF at = {} THEN 0 ELSE CHOOSE i \in at : \A j \in at : i >= j

\* os.path.splitext(p)[1]: the suffix from the last dot of the last path
\* component, unless that component has nothing but dots before it
SplitExt(p) ==
    LET sepIndex == RFind(p, "/")
        dotIndex == RFind(p, ".")
    IN  IF /\ dotIndex > sepIndex
           /\ \E j \in (sepIndex + 1)..(dotIndex - 1) : p[j] # "."
        THEN SubSeq(p, dotIndex, Len(p))
        ELSE <<>>

\* str.split(", "): the pieces between non-overlapping ", " read left to right
RECURSIVE SplitFrom(_, _, _)
SplitFrom(s, i, cur) ==
    IF i > Len(s) THEN <<cur>>
    ELSE IF i < Len(s) /\ s[i] = "," /\ s[i + 1] = " "
         THEN <<cur>> \o SplitFrom(s, i + 2, <<>>)
         ELSE SplitFrom(s, i + 1, Append(cur, s[i]))
Split(s) == SplitFrom(s, 1, <<>>)

\* str.extract(r"(\d+)"): the first maximal run of digits, <<>> when none
ExtractDigits(s) ==
    LET ds == {i \in 1..Len(s) : IsDigit(s[i])}
    IN  IF ds = {} THEN <<>>
        ELSE LET lo == CHOOSE i \in ds : \A j \in ds : i <= j
                 stop == {i \in lo..Len(s) : ~IsDigit(s[i])}
                 hi == IF stop = {} THEN Len(s)
                       ELSE (CHOOSE i \in stop : \A j \in stop : i <= j) - 1
             IN  SubSeq(s, lo, hi)

\* An optional number: <<>> is NaN, <<n>> a value.
\* .str.extract(r"(\d+)").astype(float)
DurationNum(cell) ==
    IF ExtractDigits(cell) = <<>> THEN <<>> ELSE <<ParseDigits(ExtractDigits(cell))>>
\* pd.to_numeric(errors="coerce") on digit strings; anything else is NaN
ToNumeric(cell) ==
    IF cell # <<>> /\ \A i \in 1..Len(cell) : IsDigit(cell[i])
    THEN <<ParseDigits(cell)>> ELSE <<>>

\* ------------------------------------------------------------ data frame

c_listed_in == <<"l", "i", "s", "t", "e", "d", "_", "i", "n">>
c_director == <<"d", "i", "r", "e", "c", "t", "o", "r">>
c_rating == <<"r", "a", "t", "i", "n", "g">>
c_release_year == <<"r", "e", "l", "e", "a", "s", "e", "_", "y", "e", "a", "r">>
c_type == <<"t", "y", "p", "e">>
c_duration == <<"d", "u", "r", "a", "t", "i", "o", "n">>
c_title == <<"t", "i", "t", "l", "e">>
MetricColumns == {c_listed_in, c_director, c_rating, c_release_year, c_type, c_duration}

\* pd.read_csv succeeds on a table and raises on anything else
Loads(content) == content.kind = "csv"
\* pd.read_csv, then df.columns = [c.strip() for c in df.columns]
ReadCsv(content) ==
    [columns |-> [i \in 1..Len(content.header) |-> Strip(content.header[i])],
     data |-> content.rows]

HasCol(df, name) == \E i \in 1..Len(df.columns) : df.columns[i] = name
\* the position of the (first) column of that name
ColIndex(df, name) ==
    CHOOSE i \in 1..Len(df.columns) :
        df.columns[i] = name /\ \A j \in 1..(i - 1) : df.columns[j] # name
ColAt(df, i) == [r \in 1..Len(df.data) |-> df.data[r][i]]
\* df[name]: the column as a sequence of cells
Col(df, name) == ColAt(df, ColIndex(df, name))

\* Series.dropna()
DropNa(col) == SelectSeq(col, LAMBDA x : x # <<>>)

RECURSIVE Flatten(_)
Flatten(ss) == IF ss = <<>> THEN <<>> ELSE Head(ss) \o Flatten(Tail(ss))

RECURSIVE UniqAcc(_, _)
UniqAcc(s, acc) ==
    IF s = <<>> THEN acc
    ELSE UniqAcc(Tail(s), IF Head(s) \in Range(acc) THEN acc ELSE Append(acc, Head(s)))
\* the distinct values of a sequence in order of first appearance
Uniq(s) == UniqAcc(s, <<>>)

RECURSIVE InsertDesc(_, _)
InsertDesc(p, s) ==
    IF s = <<>> THEN <<p>>
    ELSE IF Head(s)[2] >= p[2] THEN <<Head(s)>> \o InsertDesc(p, Tail(s))
         ELSE <<p>> \o s
RECURSIVE SortDesc(_)
SortDesc(s) ==
    IF s = <<>> THEN <<>>
    ELSE InsertDesc(s[Len(s)], SortDesc(SubSeq(s, 1, Len(s) - 1)))

RECURSIVE InsertAsc(_, _)
InsertAsc(p, s) ==
    IF s = <<>> THEN <<p>>
    ELSE IF Head(s)[1] <= p[1] THEN <<Head(s)>> \o InsertAsc(p, Tail(s))
         ELSE <<p>> \o s
RECURSIVE SortIndex(_)
SortIndex(s) ==
    IF s = <<>> THEN <<>>
    ELSE InsertAsc(s[Len(s)], SortIndex(SubSeq(s, 1, Len(s) - 1)))

\* value_counts() of values none of which is missing: <<label, count>> by
\* descending count (equal counts in order of first appearance)
CountsOf(vals, labs) ==
    SortDesc([i \in 1..Len(labs) |->
                <<labs[i], Cardinality({j \in 1..Len(vals) : vals[j] = labs[i]})>>])
Counts(vals) == CountsOf(vals, Uniq(vals))
\* Series.value_counts(): missing values are not counted
ValueCounts(col) == Counts(DropNa(col))

\* Series.head(n)
HeadN(s, n) == SubSeq(s, 1, Min(n, Len(s)))

\* ------------------------------------------------------------ aggregates

TOP_GENRES == 10
TOP_DIRECTORS == 10

\* df["duration_num"]: extracted from duration, all missing without it
DurationNumCol(df) ==
    IF HasCol(df, c_duration)
    THEN [r \in 1..Len(df.data) |-> DurationNum(df.data[r][ColIndex(df, c_duration)])]
    ELSE [r \in 1..Len(df.data) |-> <<>>]

SplitAll(cells) == Flatten([i \in 1..Len(cells) |-> Split(cells[i])])
\* dropna().astype(str).str.split(", ", expand=True).stack(): every piece of
\* every non-missing cell, row by row
GenreTokens(df) == SplitAll(DropNa(Col(df, c_listed_in)))

top_genresUncut(df) ==
    IF HasCol(df, c_listed_in) THEN Counts(GenreTokens(df)) ELSE <<>>
top_genres(df) ==
    IF HasCol(df, c_listed_in) THEN HeadN(Counts(GenreTokens(df)), TOP_GENRES) ELSE <<>>

top_directors(df) ==
    IF HasCol(df, c_director)
    THEN HeadN(ValueCounts(Col(df, c_director)), TOP_DIRECTORS) ELSE <<>>

rating_counts(df) ==
    IF HasCol(df, c_rating) THEN ValueCounts(Col(df, c_rating)) ELSE <<>>

\* df["release_year"] = pd.to_numeric(df["release_year"], errors="coerce")
YearCol(col) == [r \in 1..Len(col) |-> ToNumeric(col[r])]
\* <<year, count>> of a value_counts() over optional numbers
YearCounts(vc) == [i \in 1..Len(vc) |-> <<vc[i][1][1], vc[i][2]>>]
\* value_counts().sort_index(): <<year, count>> by ascending year
per_year(df) ==
    IF HasCol(df, c_release_year)
    THEN SortIndex(YearCounts(ValueCounts(YearCol(Col(df, c_release_year)))))
    ELSE <<>>

type_counts(df) ==
    IF HasCol(df, c_type) THEN ValueCounts(Col(df, c_type)) ELSE <<>>

RECURSIVE SumOver(_, _)
SumOver(rows, num) ==
    IF rows = {} THEN 0
    ELSE SumOver(rows \ {CHOOSE r \in rows : TRUE}, num)
         + num[CHOOSE r \in rows : TRUE][1]

\* the rows dropna(subset=["duration_num"]).groupby("type") keeps
KeptRows(typ, num) == {r \in 1..Len(typ) : num[r] # <<>> /\ typ[r] # <<>>}
\* one <<type, sum, count>> per type: the mean as sum over count
MeanBy(typ, num, kept) ==
    {<<typ[r0], SumOver({r \in kept : typ[r] = typ[r0]}, num),
       Cardinality({r \in kept : typ[r] = typ[r0]})>> : r0 \in kept}
GroupMean(typ, num) == MeanBy(typ, num, KeptRows(typ, num))
\* df.dropna(subset=["duration_num"]).groupby("type")["duration_num"].mean()
avg_durationNoDropna(df) ==
    IF HasCol(df, c_type)
    THEN {<<t, 0, 0>> : t \in Range(DropNa(Col(df, c_type)))} ELSE {}
avg_duration(df) ==
    IF HasCol(df, c_type) THEN GroupMean(Col(df, c_type), DurationNumCol(df)) ELSE {}

\* the six aggregates of one run
Aggregates(df) ==
    [top_genres |-> top_genres(df), top_directors |-> top_directors(df),
     rating_distribution |-> rating_counts(df), titles_per_year |-> per_year(df),
     type_count |-> type_counts(df), avg_movie_duration |-> avg_duration(df)]

\* the keys of plot_files: one per aggregate that is not empty
plot_files(agg) ==
    {k \in KeySet :
        IF k = "avg_movie_duration" THEN agg[k] # {} ELSE agg[k] # <<>>}

\* the image _save_plot writes for a key: the rendering of its aggregate
Chart(agg, key) == [kind |-> "png", key |-> key, data |-> agg[key]]

\* ------------------------------------------------------------------ inputs

CSV_EXT == <<".", "c", "s", "v">>

\* The spelling of the upload file names of the model.
FileNameChars ==
    [n \in {"a.csv", "B.CSV", "notes.txt", ".csv", "a.csv.bak", "csv"} |->
        CASE n = "a.csv" -> <<"a", ".", "c", "s", "v">>
          [] n = "B.CSV" -> <<"B", ".", "C", "S", "V">>
          [] n = "notes.txt" -> <<"n", "o", "t", "e", "s", ".", "t", "x", "t">>
          [] n = ".csv" -> <<".", "c", "s", "v">>
          [] n = "a.csv.bak" -> <<"a", ".", "c", "s", "v", ".", "b", "a", "k">>
          [] n = "csv" -> <<"c", "s", "v">>]
FileNames == DOMAIN FileNameChars

UploadRejectedNoCsvInside(filename) ==
    LET n == Lower(FileNameChars[filename])
    IN  ~\E i \in 1..(Len(n) - 3) : SubSeq(n, i, i + 3) = CSV_EXT
\* upload: ext = os.path.splitext(file.filename)[1].lower(); ext != ".csv"
UploadRejected(filename) == Lower(SplitExt(FileNameChars[filename])) # CSV_EXT

EXT_GOOD == "ext/good.csv"
EXT_JUNK == "ext/junk.csv"
EXT_MISSING == "ext/missing.csv"

\* a file that pd.read_csv cannot load as a table
Junk == [kind |-> "junk"]

\* The two-row dataset of the scenario: type, listed_in, rating, release_year,
\* duration, no director ("M" Movie, "T" TV Show, "D" Drama, "C" Comedy).
CsvScenario ==
    [kind |-> "csv",
     header |-> <<c_type, c_listed_in, c_rating, c_release_year, c_duration>>,
     rows |-> << <<<<"M">>, <<"D", ",", " ", "C">>, <<"P">>, <<"2", "0", "2", "0">>,
                   <<"9", "0", " ", "m">>>>,
                 <<<<"T">>, <<"D">>, <<"A">>, <<"2", "0", "2", "1">>,
                   <<"2", " ", "S">>>> >>]

\* The bundled default: every column, the director header padded with a blank.
CsvDefault ==
    [kind |-> "csv",
     header |-> <<c_type, c_listed_in, <<" ">> \o c_director, c_rating,
                  c_release_year, c_duration>>,
     rows |-> << <<<<"M">>, <<"H">>, <<"x">>, <<"R">>, <<"1", "9", "9", "9">>,
                   <<"8", "0", " ", "m">>>>,
                 <<<<"M">>, <<"H", ",", " ", "D">>, <<>>, <<"R">>, <<"n", "a">>,
                   <<>>>> >>]

\* A server-side file to ingest: one row, genres and type only.
CsvExt ==
    [kind |-> "csv",
     header |-> <<c_listed_in, c_type>>,
     rows |-> << <<<<"K">>, <<"T">>>> >>]

\* A second small table, uploaded while reports are being generated.
CsvSmall ==
    [kind |-> "csv",
     header |-> <<c_listed_in, c_type>>,
     rows |-> << <<<<"H">>, <<"M">>>> >>]

UploadBodies == {CsvScenario}
Paths ==
    {CURRENT, DEFAULT, PDF_FILE, PPT_FILE, EXT_GOOD, EXT_JUNK}
    \cup {PlotPath(k) : k \in KeySet}
    \cup {UploadPath(n) : n \in {m \in FileNames : ~UploadRejected(m)}}
IngestPaths == {EXT_GOOD, EXT_JUNK, EXT_MISSING, CURRENT, DEFAULT}
Sources == {NONE, EXT_GOOD, EXT_MISSING}
ReportTypes == {"pdf", "pptx"}

\* how the narrative service behaves when it is called
AiOutcomes ==
    {[kind |-> "raise", content |-> <<>>],
     [kind |-> "answer", content |-> <<" ", "s", ".">>]}
AiUncalled == [kind |-> "uncalled", content |-> <<>>]
AiChoices(enabled) == IF enabled THEN AiOutcomes ELSE {AiUncalled}

Workers == 1..MaxWorkers
IdleProc == [pc |-> "idle", n |-> 0]


\* --------------------------------------------------- tables for the aggregates

\* title, type, listed_in, director, rating, release_year, duration
FullHeader ==
    <<c_title, c_type, c_listed_in, c_director, c_rating, c_release_year, c_duration>>
\* a complete row; a row without director and rating whose year and duration
\* do not parse; a row without type, genres and year
RowPool ==
    { <<<<"t">>, <<"M">>, <<"D", ",", " ", "C">>, <<"x">>, <<"P">>,
        <<"2", "0", "2", "0">>, <<"9", "0", " ", "m">>>>,
      <<<<"u">>, <<"T">>, <<"D">>, <<>>, <<>>, <<"n", "a">>, <<"S">>>>,
      <<<<"v">>, <<>>, <<>>, <<"y">>, <<"P">>, <<>>, <<"7">>>> }

\* the columns of a table at the positions idx
Restrict(csv, idx) ==
    [kind |-> "csv",
     header |-> [j \in 1..Len(idx) |-> csv.header[idx[j]]],
     rows |-> [r \in 1..Len(csv.rows) |-> [j \in 1..Len(idx) |-> csv.rows[r][idx[j]]]]]
\* the table with its title and, of the six metric columns, only those in cols
Project(csv, cols) ==
    Restrict(csv, SelectSeq([i \in 1..Len(csv.header) |-> i],
                            LAMBDA i : csv.header[i] = c_title \/ csv.header[i] \in cols))

\* every table of at most MaxRows rows of the pool, under every column subset
SubsetFiles ==
    {Project([kind |-> "csv", header |-> FullHeader, rows |-> rows], cols) :
        rows \in UNION {[1..n -> RowPool] : n \in 0..MaxRows},
        cols \in SUBSET MetricColumns}

Letters == <<"a", "b", "c", "d", "e", "f", "g", "h", "i", "j", "k", "l", "m", "n", "o">>
Label(i, k) == Letters[(i % k) + 1]
\* n rows over k labels: row i lists two genres and names one director, and
\* every seventh row has no director
CycFile(n, k) ==
    [kind |-> "csv",
     header |-> <<c_listed_in, c_director>>,
     rows |-> [i \in 1..n |->
                 << <<Label(i, k), ",", " ", Label(2 * i, k)>>,
                    IF i % 7 = 0 THEN <<>> ELSE <<Label(i, k)>> >>]]
CycFiles == {CycFile(n, k) : n \in 0..MaxCycRows, k \in 1..MaxLabels}

AggFiles == SubsetFiles \cup CycFiles

\* ------------------------------------------------------------ run_report

ResolveWithFallback(f, csv_path) ==
    IF csv_path # NONE /\ Exists(f, csv_path) THEN csv_path
    ELSE IF Exists(f, CURRENT) THEN CURRENT ELSE DEFAULT
\* 1. Decide which CSV to use
ResolveCsvPath(f, csv_path) ==
    IF csv_path = NONE
    THEN IF Exists(f, CURRENT) THEN CURRENT ELSE DEFAULT
    ELSE csv_path

SavePlotsOf(f, agg, keys) ==
    [p \in DOMAIN f |->
        IF \E k \in keys : p = PlotPath(k)
        THEN Chart(agg, CHOOSE k \in keys : p = PlotPath(k))
        ELSE f[p]]
\* every chart of the run written to its fixed path
SavePlots(f, agg) == SavePlotsOf(f, agg, plot_files(agg))

\* what the narrative service is sent
SummaryPrompt(agg) ==
    [top_genres |-> agg.top_genres, top_directors |-> agg.top_directors,
     rating_counts |-> agg.rating_distribution, sent |-> TRUE]

AiSummaryOrError(enabled, ai) ==
    IF enabled /\ ai.kind = "answer" THEN Strip(ai.content)
    ELSE IF enabled /\ ai.kind = "raise" THEN <<"e", "r", "r">> ELSE <<>>
\* ai_summary: the stripped answer, "" without the client or when the call raises
AiSummary(enabled, ai) ==
    IF enabled /\ ai.kind = "answer" THEN Strip(ai.content) ELSE <<>>

\* the images a document embeds: the files at the run's plot paths, in key order
ImagesAt(f, present) == [i \in 1..Len(present) |-> f[PlotPath(present[i])]]
Images(f, keys) == ImagesAt(f, SelectSeq(PlotKeys, LAMBDA k : k \in keys))

PdfDocument(f, keys, ai_summary) ==
    [kind |-> "pdf", summary |-> ai_summary, images |-> Images(f, keys)]
PptDocument(f, keys, ai_summary) ==
    [kind |-> "pptx", summary |-> ai_summary, images |-> Images(f, keys)]

\* pdf.output(pdf_file), ppt.save(ppt_file)
SaveDocuments(f, keys, ai_summary) ==
    [f EXCEPT ![PDF_FILE] = PdfDocument(f, keys, ai_summary),
              ![PPT_FILE] = PptDocument(f, keys, ai_summary)]

AssembleAlways(f, generate_files, keys, ai_summary) ==
    SaveDocuments(f, keys, ai_summary)
\* if generate_files: the documents are assembled only on request
Assemble(f, generate_files, keys, ai_summary) ==
    IF generate_files THEN SaveDocuments(f, keys, ai_summary) ELSE f

\* Aggregates(ReadCsv(content)), looked up for the tables of the gateway's files
AggTable ==
    [c \in {CsvScenario, CsvDefault, CsvExt, CsvSmall} |-> Aggregates(ReadCsv(c))]
AggregatesOf(content) ==
    IF content \in DOMAIN AggTable THEN AggTable[content]
    ELSE Aggregates(ReadCsv(content))

NoPrompt == [top_genres |-> <<>>, top_directors |-> <<>>, rating_counts |-> <<>>,
             sent |-> FALSE]

\* run_report raising e: nothing returned, nothing written
RunFailed(f, path, e, read) ==
    [error |-> e, csv_path |-> path, pdf_file |-> NONE, ppt_file |-> NONE,
     ai_summary |-> <<>>, plots |-> {}, fs |-> f, prompt |-> NoPrompt,
     loaded |-> read]

\* run_report from the narrative on: the documents and the returned dict
RunAssemble(f1, enabled, path, generate_files, summary, agg, keys, read) ==
    [error |-> NONE,
     csv_path |-> path,
     pdf_file |-> IF generate_files THEN PDF_FILE ELSE NONE,
     ppt_file |-> IF generate_files THEN PPT_FILE ELSE NONE,
     ai_summary |-> summary,
     plots |-> {<<k, PlotPath(k)>> : k \in keys},
     fs |-> Assemble(f1, generate_files, keys, summary),
     prompt |-> IF enabled THEN SummaryPrompt(agg) ELSE NoPrompt,
     loaded |-> read]

\* run_report once the table is loaded and aggregated
RunLoaded(f, enabled, path, generate_files, ai, agg) ==
    RunAssemble(SavePlots(f, agg), enabled, path, generate_files,
                AiSummary(enabled, ai), agg, plot_files(agg), f[path])

\* run_report once the path is decided: the existence check and the load
RunResolved(f, enabled, path, generate_files, ai) ==
    IF ~Exists(f, path) THEN RunFailed(f, path, "FileNotFoundError", NoFile)
    ELSE IF ~Loads(f[path]) THEN RunFailed(f, path, "ParserError", f[path])
    ELSE RunLoaded(f, enabled, path, generate_files, ai, AggregatesOf(f[path]))

\* run_report(csv_path, generate_files) on file system f, the narrative
\* service behaving as ai: the error raised (NONE when it returns), the
\* returned dict, the file system it leaves, the prompt it sent and what it read
RunReport(f, enabled, csv_path, generate_files, ai) ==
    RunResolved(f, enabled, ResolveCsvPath(f, csv_path), generate_files, ai)

\* -------------------------------------------------------------- gateway

\* upload: copy the body to uploads/<filename>, then that file to the current dataset
UploadFs(f, filename, body) ==
    [f EXCEPT ![UploadPath(filename)] = body, ![CURRENT] = body]

Upload(filename, body) ==
    /\ req' = [op |-> "upload", filename |-> filename, body |-> body]
    /\ IF UploadRejected(filename)
       THEN /\ resp' = [status |-> 400]
            /\ UNCHANGED <<fs, stored>>
       ELSE /\ fs' = UploadFs(fs, filename, body)
            /\ resp' = [status |-> 200, uploaded_path |-> UploadPath(filename),
                        current_dataset |-> CURRENT]
            /\ stored' = body
    /\ loaded' = NoFile
    /\ UNCHANGED <<aiEnabled, prompt, procs>>

\* ingest: shutil.copy(csv_path, current_dataset_path)
IngestFs(f, path) == [f EXCEPT ![CURRENT] = IF path \in DOMAIN f THEN f[path] ELSE NoFile]

\* ingest after the copy: pd.read_csv(current_dataset_path) and the answer
IngestLoad(f1) ==
    IF ~Loads(f1[CURRENT])
    THEN [status |-> 500, error |-> "ParserError", fs |-> f1, loaded |-> f1[CURRENT]]
    ELSE [status |-> 200, rows |-> Len(ReadCsv(f1[CURRENT]).data),
          current_dataset |-> CURRENT, fs |-> f1, loaded |-> f1[CURRENT]]

IngestResultCopyFirst(f, path) == IngestLoad(IngestFs(f, path))
IngestResultLoadFirst(f, path) ==
    IF ~Exists(f, path) THEN [status |-> 404, fs |-> f, loaded |-> NoFile]
    ELSE IF ~Loads(f[path])
         THEN [status |-> 500, error |-> "ParserError", fs |-> f, loaded |-> f[path]]
         ELSE IngestLoad(IngestFs(f, path))
\* ingest: the response, the file system left behind and what was loaded
IngestResult(f, path) ==
    IF ~Exists(f, path) THEN [status |-> 404, fs |-> f, loaded |-> NoFile]
    ELSE IF path = CURRENT
         THEN [status |-> 500, error |-> "SameFileError", fs |-> f, loaded |-> NoFile]
         ELSE IngestLoad(IngestFs(f, path))

Ingest(path) ==
    \E r \in {IngestResult(fs, path)} :
        /\ req' = [op |-> "ingest", path |-> path]
        /\ fs' = r.fs
        /\ resp' = [x \in DOMAIN r \ {"fs", "loaded"} |-> r[x]]
        /\ stored' = IF r.status = 200 THEN r.fs[CURRENT] ELSE stored
        /\ loaded' = r.loaded
        /\ UNCHANGED <<aiEnabled, prompt, procs>>

\* analyze / generate_report: the handler's answer to run_report's outcome
ReportResponse(r, generate_files) ==
    IF r.error = "FileNotFoundError"
    THEN [status |-> 500, detail |-> r.error, csv_path |-> r.csv_path]
    ELSE IF r.error # NONE THEN [status |-> 500, detail |-> r.error]
    ELSE IF generate_files
         THEN [status |-> 200, csv_path |-> r.csv_path, pdf_file |-> r.pdf_file,
               ppt_file |-> r.ppt_file, ai_summary |-> r.ai_summary, plots |-> r.plots]
         ELSE [status |-> 200, csv_path |-> r.csv_path,
               ai_summary |-> r.ai_summary, plots |-> r.plots]

Analyze(source, ai) ==
    \E r \in {RunReport(fs, aiEnabled, source, FALSE, ai)} :
        /\ req' = [op |-> "analyze", source |-> source, ai |-> ai]
        /\ fs' = r.fs
        /\ resp' = ReportResponse(r, FALSE)
        /\ prompt' = IF r.prompt.sent THEN r.prompt ELSE prompt
        /\ loaded' = r.loaded
        /\ UNCHANGED <<aiEnabled, stored, procs>>

GenerateReport(source, ai) ==
    \E r \in {RunReport(fs, aiEnabled, source, TRUE, ai)} :
        /\ req' = [op |-> "generate_report", source |-> source, ai |-> ai]
        /\ fs' = r.fs
        /\ resp' = ReportResponse(r, TRUE)
        /\ prompt' = IF r.prompt.sent THEN r.prompt ELSE prompt
        /\ loaded' = r.loaded
        /\ UNCHANGED <<aiEnabled, stored, procs>>

ReportPath(report_type) == IF report_type = "pdf" THEN PDF_FILE ELSE PPT_FILE

GetReport(report_type) ==
    /\ req' = [op |-> "get_report", report_type |-> report_type]
    /\ resp' = IF Exists(fs, ReportPath(report_type))
               THEN [status |-> 200, file |-> fs[ReportPath(report_type)]]
               ELSE [status |-> 404]
    /\ loaded' = NoFile
    /\ UNCHANGED <<fs, aiEnabled, prompt, stored, procs>>

\* ------------------------------------------------------- specification

\* A fresh deployment: no current dataset, no uploads, an empty reports
\* directory; the bundled default may or may not have been shipped.
InitFs(default) ==
    [p \in Paths |->
        CASE p = DEFAULT -> default
          [] p = EXT_GOOD -> CsvExt
          [] p = EXT_JUNK -> Junk
          [] OTHER -> NoFile]

Init ==
    /\ \E d \in {CsvDefault, NoFile} : fs = InitFs(d)
    /\ aiEnabled \in BOOLEAN
    /\ req = [op |-> "none"]
    /\ resp = [status |-> 0]
    /\ prompt = NoPrompt
    /\ loaded = NoFile
    /\ stored = NoFile
    /\ procs = [w \in Workers |-> IdleProc]

Next ==
    \/ \E n \in FileNames, b \in UploadBodies : Upload(n, b)
    \/ \E p \in IngestPaths : Ingest(p)
    \/ \E s \in Sources, ai \in AiChoices(aiEnabled) : Analyze(s, ai)
    \/ \E s \in Sources, ai \in AiChoices(aiEnabled) : GenerateReport(s, ai)
    \/ \E t \in ReportTypes : GetReport(t)

Spec == Init /\ [][Next]_vars

\* The pipeline alone, on every table of the two families as the bundled
\* default of a fresh deployment without the narrative client.
InitAgg ==
    /\ \E d \in AggFiles : fs = InitFs(d)
    /\ aiEnabled = FALSE
    /\ req = [op |-> "none"]
    /\ resp = [status |-> 0]
    /\ prompt = NoPrompt
    /\ loaded = NoFile
    /\ stored = NoFile
    /\ procs = [w \in Workers |-> IdleProc]

NextAgg ==
    \/ \E ai \in AiChoices(aiEnabled) : Analyze(NONE, ai)
    \/ \E ai \in AiChoices(aiEnabled) : GenerateReport(NONE, ai)

SpecAgg == InitAgg /\ [][NextAgg]_vars

\* ------------------------------------------- the handlers step by step

\* A file opened for writing and not yet closed holds a prefix of its bytes.
Partial == [kind |-> "partial"]
\* the prefixes of a table a reader can meet while shutil.copy writes it:
\* nothing yet, or the header line alone
Prefixes(body) ==
    {Partial, [kind |-> "csv", header |-> body.header, rows |-> <<>>, cut |-> TRUE]}

CanStartExclusive(w) ==
    /\ procs[w].pc = "idle" /\ procs[w].n < MaxRequests
    /\ \A v \in Workers : procs[v].pc = "idle"
\* a server process takes the next request as soon as it is free: no handler
\* takes a lock, whatever the other processes are doing
CanStart(w) == procs[w].pc = "idle" /\ procs[w].n < MaxRequests

At(w, pc) == procs[w].pc = pc
Goto(w, p) == procs' = [procs EXCEPT ![w] = p]
\* the handler returns: the worker is free again
Done(w) == procs' = [procs EXCEPT ![w] = [pc |-> "idle", n |-> procs[w].n + 1]]

\* the keys of the run's charts in the order they are saved and embedded
KeySeq(table) == SelectSeq(PlotKeys, LAMBDA k : k \in plot_files(AggregatesOf(table)))

StartGenerate(w) ==
    /\ CanStart(w)
    /\ Goto(w, [pc |-> "resolve", n |-> procs[w].n])
    /\ UNCHANGED <<fs, aiEnabled, req, resp, prompt, loaded, stored>>

\* run_report: decide the path and check that it exists
StepResolve(w) ==
    /\ At(w, "resolve")
    /\ \E path \in {ResolveCsvPath(fs, NONE)} :
         IF Exists(fs, path)
         THEN /\ Goto(w, [pc |-> "load", n |-> procs[w].n, path |-> path])
              /\ UNCHANGED <<req, resp, loaded>>
         ELSE /\ Done(w)
              /\ req' = [op |-> "generate_report", source |-> NONE, ai |-> AiUncalled]
              /\ resp' = [status |-> 500, detail |-> "FileNotFoundError", csv_path |-> path]
              /\ loaded' = NoFile
    /\ UNCHANGED <<fs, aiEnabled, prompt, stored>>

\* where a run goes once i - 1 of its charts are saved
AfterPlot(w, table, i) ==
    IF i <= Len(KeySeq(table))
    THEN [pc |-> "plot", n |-> procs[w].n, path |-> procs[w].path, table |-> table, i |-> i]
    ELSE [pc |-> "pdf", n |-> procs[w].n, path |-> procs[w].path, table |-> table]

\* run_report: pd.read_csv(csv_path) on whatever the file holds now
StepLoad(w) ==
    /\ At(w, "load")
    /\ IF Loads(fs[procs[w].path])
       THEN /\ Goto(w, AfterPlot(w, fs[procs[w].path], 1))
            /\ UNCHANGED <<req, resp, loaded>>
       ELSE /\ Done(w)
            /\ req' = [op |-> "generate_report", source |-> NONE, ai |-> AiUncalled]
            /\ resp' = [status |-> 500, detail |-> "ParserError"]
            /\ loaded' = fs[procs[w].path]
    /\ UNCHANGED <<fs, aiEnabled, prompt, stored>>

\* run_report: _save_plot of the run's next chart
StepPlot(w) ==
    /\ At(w, "plot")
    /\ \E k \in {KeySeq(procs[w].table)[procs[w].i]} :
         fs' = [fs EXCEPT ![PlotPath(k)] = Chart(AggregatesOf(procs[w].table), k)]
    /\ Goto(w, AfterPlot(w, procs[w].table, procs[w].i + 1))
    /\ UNCHANGED <<aiEnabled, req, resp, prompt, loaded, stored>>

\* run_report: pdf.image(...) reads the chart files as they are now, then
\* pdf.output opens the PDF for writing
StepPdf(w) ==
    /\ At(w, "pdf")
    /\ fs' = [fs EXCEPT ![PDF_FILE] = Partial]
    /\ Goto(w, [pc |-> "pdf_close", n |-> procs[w].n, path |-> procs[w].path,
                table |-> procs[w].table,
                images |-> ImagesAt(fs, KeySeq(procs[w].table))])
    /\ UNCHANGED <<aiEnabled, req, resp, prompt, loaded, stored>>

\* run_report: pdf.output has written the whole PDF
StepPdfClose(w) ==
    /\ At(w, "pdf_close")
    /\ fs' = [fs EXCEPT ![PDF_FILE] =
                [kind |-> "pdf", summary |-> <<>>, images |-> procs[w].images]]
    /\ Goto(w, [pc |-> "ppt", n |-> procs[w].n, path |-> procs[w].path,
                table |-> procs[w].table])
    /\ UNCHANGED <<aiEnabled, req, resp, prompt, loaded, stored>>

\* run_report: add_picture(...) reads the chart files as they are now, then
\* ppt.save opens the slide deck for writing
StepPpt(w) ==
    /\ At(w, "ppt")
    /\ fs' = [fs EXCEPT ![PPT_FILE] = Partial]
    /\ Goto(w, [pc |-> "ppt_close", n |-> procs[w].n, path |-> procs[w].path,
                table |-> procs[w].table,
                images |-> ImagesAt(fs, KeySeq(procs[w].table))])
    /\ UNCHANGED <<aiEnabled, req, resp, prompt, loaded, stored>>

\* run_report: ppt.save has written the whole deck; generate_report answers
StepPptClose(w) ==
    /\ At(w, "ppt_close")
    /\ fs' = [fs EXCEPT ![PPT_FILE] =
                [kind |-> "pptx", summary |-> <<>>, images |-> procs[w].images]]
    /\ Done(w)
    /\ req' = [op |-> "generate_report", source |-> NONE, ai |-> AiUncalled]
    /\ resp' = [status |-> 200, csv_path |-> procs[w].path, pdf_file |-> PDF_FILE,
                ppt_file |-> PPT_FILE, ai_summary |-> <<>>,
                plots |-> {<<k, PlotPath(k)>> : k \in Range(KeySeq(procs[w].table))}]
    /\ loaded' = procs[w].table
    /\ UNCHANGED <<aiEnabled, prompt, stored>>

\* upload: the extension check and the copy of the body to uploads/<filename>
StartUpload(w, filename, body) ==
    /\ CanStart(w)
    /\ ~UploadRejected(filename)
    /\ fs' = [fs EXCEPT ![UploadPath(filename)] = body]
    /\ Goto(w, [pc |-> "copy_open", n |-> procs[w].n, filename |-> filename])
    /\ UNCHANGED <<aiEnabled, req, resp, prompt, loaded, stored>>

\* upload: shutil.copy has opened the current dataset and written part of it
StepCopyOpen(w) ==
    /\ At(w, "copy_open")
    /\ \E cut \in Prefixes(fs[UploadPath(procs[w].filename)]) :
         fs' = [fs EXCEPT ![CURRENT] = cut]
    /\ Goto(w, [pc |-> "copy_close", n |-> procs[w].n, filename |-> procs[w].filename])
    /\ UNCHANGED <<aiEnabled, req, resp, prompt, loaded, stored>>

\* upload: shutil.copy has written the whole current dataset; upload answers
StepCopyClose(w) ==
    /\ At(w, "copy_close")
    /\ fs' = [fs EXCEPT ![CURRENT] = fs[UploadPath(procs[w].filename)]]
    /\ Done(w)
    /\ req' = [op |-> "upload", filename |-> procs[w].filename,
               body |-> fs[UploadPath(procs[w].filename)]]
    /\ resp' = [status |-> 200, uploaded_path |-> UploadPath(procs[w].filename),
                current_dataset |-> CURRENT]
    /\ stored' = fs[UploadPath(procs[w].filename)]
    /\ loaded' = NoFile
    /\ UNCHANGED <<aiEnabled, prompt>>

\* get_report: the existence check; the file itself is sent after the handler
StartGet(w, report_type) ==
    /\ CanStart(w)
    /\ IF Exists(fs, ReportPath(report_type))
       THEN /\ Goto(w, [pc |-> "stream", n |-> procs[w].n, report_type |-> report_type])
            /\ UNCHANGED <<req, resp, loaded>>
       ELSE /\ Done(w)
            /\ req' = [op |-> "get_report", report_type |-> report_type]
            /\ resp' = [status |-> 404]
            /\ loaded' = NoFile
    /\ UNCHANGED <<fs, aiEnabled, prompt, stored>>

\* FileResponse: the file is read and sent as it is now
StepStream(w) ==
    /\ At(w, "stream")
    /\ Done(w)
    /\ req' = [op |-> "get_report", report_type |-> procs[w].report_type]
    /\ resp' = [status |-> 200, file |-> fs[ReportPath(procs[w].report_type)]]
    /\ loaded' = NoFile
    /\ UNCHANGED <<fs, aiEnabled, prompt, stored>>

\* the next step of the request a worker is handling
Step(w) ==
    \/ StepResolve(w) \/ StepLoad(w) \/ StepPlot(w)
    \/ StepPdf(w) \/ StepPdfClose(w) \/ StepPpt(w) \/ StepPptClose(w)
    \/ StepCopyOpen(w) \/ StepCopyClose(w)
    \/ StepStream(w)

\* Several server processes over one deployment in which EXT_GOOD has been
\* ingested; the narrative client is not installed.
InitConc ==
    /\ \E r \in {IngestResult(InitFs(NoFile), EXT_GOOD)} :
         /\ fs = r.fs
         /\ resp = [x \in DOMAIN r \ {"fs", "loaded"} |-> r[x]]
         /\ loaded = r.loaded
         /\ stored = r.fs[CURRENT]
    /\ req = [op |-> "ingest", path |-> EXT_GOOD]
    /\ aiEnabled = FALSE
    /\ prompt = NoPrompt
    /\ procs = [w \in Workers |-> IdleProc]

NextConc ==
    \E w \in Workers :
        \/ StartGenerate(w)
        \/ StartUpload(w, "B.CSV", CsvSmall)
        \/ StartGet(w, "pdf")
        \/ Step(w)

SpecConc == InitConc /\ [][NextConc]_vars

\* ------------------------------------------------------------- claims

RunOps == {"analyze", "generate_report"}
NotFound(r) == r.status = 500 /\ r.detail = "FileNotFoundError"

\* C1 as stated: run_report takes the explicit path if it is given and exists,
\* otherwise the current dataset if present, otherwise the default, and raises
\* not-found exactly when the path chosen this way does not exist.
C1_FallbackOrder ==
    [][req'.op \in RunOps =>
        LET chosen == IF req'.source # NONE /\ Exists(fs, req'.source) THEN req'.source
                      ELSE IF Exists(fs, CURRENT) THEN CURRENT ELSE DEFAULT
        IN  /\ NotFound(resp') <=> ~Exists(fs, chosen)
            /\ resp'.status = 200 => resp'.csv_path = chosen]_vars

\* C1 amended: run_report takes the explicit path whenever one is given (existing
\* or not), otherwise the current dataset if present, otherwise the default, and
\* raises not-found exactly when the path chosen this way does not exist.
C1_ResolutionOrder ==
    [][req'.op \in RunOps =>
        LET chosen == IF req'.source # NONE THEN req'.source
                      ELSE IF Exists(fs, CURRENT) THEN CURRENT ELSE DEFAULT
        IN  /\ NotFound(resp') <=> ~Exists(fs, chosen)
            /\ resp'.status = 200 => resp'.csv_path = chosen
            /\ loaded' = IF Exists(fs, chosen) THEN fs[chosen] ELSE NoFile]_vars

\* an explicit path that does not exist is refused although a current dataset exists
C1_Witness ==
    /\ req.op \in RunOps /\ req.source = EXT_MISSING
    /\ Exists(fs, CURRENT)
    /\ NotFound(resp)

\* C2: a run with no explicit source reads the content of the last successfully
\* uploaded or ingested CSV, and the default only when nothing was ever stored
\* as the current dataset.
C2_ReadsLastStored ==
    (req.op \in RunOps /\ req.source = NONE) =>
        /\ stored # NoFile => loaded = stored
        /\ (resp.status = 200 /\ resp.csv_path = DEFAULT) => ~Exists(fs, CURRENT)

EndsWithCsv(name) ==
    Len(name) >= 4 /\ Lower(SubSeq(name, Len(name) - 3, Len(name))) = CSV_EXT

\* C3: an upload whose file name does not end in .csv (case-insensitively) is
\* answered 400 and leaves every file, the uploads and the current dataset
\* included, as it was.
C3_NonCsvRejectedUnwritten ==
    [][(req'.op = "upload" /\ ~EndsWithCsv(FileNameChars[req'.filename])) =>
        (resp'.status = 400 /\ fs' = fs)]_vars

\* a name with .csv inside but another extension is refused with a dataset in place
C3_Witness ==
    /\ req.op = "upload" /\ req.filename = "a.csv.bak"
    /\ resp.status = 400
    /\ Exists(fs, CURRENT)

\* C4: ingesting a path that does not exist is answered 404 and leaves the
\* current dataset as it was, present or absent.
C4_MissingIngestUnchanged ==
    [][(req'.op = "ingest" /\ ~Exists(fs, req'.path)) =>
        (resp'.status = 404 /\ fs'[CURRENT] = fs[CURRENT])]_vars

\* a missing path refused while a current dataset is present
C4_Witness ==
    /\ req.op = "ingest" /\ req.path = EXT_MISSING
    /\ resp.status = 404
    /\ Exists(fs, CURRENT)

\* C5: the PDF and the slide deck come into existence only through a
\* generate-report request, so from the empty reports directory every download
\* before one is answered 404; analyze returns no document paths; after a
\* generate-report answered 200 both files exist, stay, and are served.
C5_DocumentsOnlyByGenerate ==
    /\ [](req.op = "get_report" =>
            (resp.status = 404 <=> ~Exists(fs, ReportPath(req.report_type))))
    /\ [](req.op = "get_report" /\ resp.status = 200 =>
            resp.file = fs[ReportPath(req.report_type)])
    /\ [](req.op = "analyze" /\ resp.status = 200 =>
            {"pdf_file", "ppt_file"} \cap DOMAIN resp = {})
    /\ [][/\ \A d \in {PDF_FILE, PPT_FILE} :
               /\ (req'.op # "generate_report" /\ Exists(fs', d)) => Exists(fs, d)
               /\ Exists(fs, d) => Exists(fs', d)
          /\ (req'.op = "generate_report" /\ resp'.status = 200) =>
               /\ resp'.pdf_file = PDF_FILE /\ resp'.ppt_file = PPT_FILE
               /\ Exists(fs', PDF_FILE) /\ Exists(fs', PPT_FILE)]_vars

\* a download refused after an analyze run has already written its charts
C5_Witness ==
    /\ req.op = "get_report" /\ resp.status = 404
    /\ \E k \in KeySet : Exists(fs, PlotPath(k))
    /\ Exists(fs, CURRENT)

AnAnswer == [kind |-> "answer", content |-> <<"s">>]

\* C6: with the narrative service unavailable (no client library, or the call
\* raises), a generate-report request on a dataset that resolves and loads is
\* answered 200 with an empty narrative and with the chart paths, the document
\* paths, the charts and the embedded images of the run in which the service
\* answers.
C6_NarrativeFailureHarmless ==
    [][(req'.op = "generate_report" /\ req'.ai.kind \in {"raise", "uncalled"}) =>
        LET run == RunReport(fs, TRUE, req'.source, TRUE, AnAnswer)
            answered == ReportResponse(run, TRUE)
        IN  answered.status = 200 =>
              /\ resp'.status = 200
              /\ resp'.ai_summary = <<>>
              /\ resp'.plots = answered.plots /\ resp'.plots # {}
              /\ resp'.pdf_file = PDF_FILE /\ resp'.ppt_file = PPT_FILE
              /\ \A k \in KeySet : fs'[PlotPath(k)] = run.fs[PlotPath(k)]
              /\ \A d \in {PDF_FILE, PPT_FILE} :
                    /\ Exists(fs', d)
                    /\ fs'[d].images = run.fs[d].images
                    /\ fs'[d].summary = <<>>]_vars

\* a report generated although the call to the service raised
C6_Witness ==
    /\ req.op = "generate_report" /\ req.ai.kind = "raise"
    /\ resp.status = 200 /\ resp.ai_summary = <<>>
    /\ Exists(fs, PDF_FILE)

\* C10: an ingest of an existing file that does not load is answered with an
\* error, yet the current dataset then holds that file, and a run with no
\* explicit source resolves to the current dataset whenever it exists, so it
\* reads the file that failed to ingest.
C10_FailedIngestReplaces ==
    /\ [][(req'.op = "ingest" /\ Exists(fs, req'.path) /\ ~Loads(fs[req'.path])) =>
            (resp'.status = 500 /\ fs'[CURRENT] = fs[req'.path])]_vars
    /\ []((req.op \in RunOps /\ req.source = NONE /\ Exists(fs, CURRENT)) =>
            /\ loaded = fs[CURRENT]
            /\ ~Loads(fs[CURRENT]) => (resp.status = 500 /\ resp.detail = "ParserError"))

\* after a good upload and a failed ingest, a run reads the file that failed
C10_Witness ==
    /\ req.op \in RunOps /\ req.source = NONE
    /\ stored = CsvScenario /\ fs[CURRENT] = Junk
    /\ resp.status = 500 /\ loaded = Junk

\* the table behind a run of the pipeline-only specification
RunTable == ReadCsv(fs[DEFAULT])
SomeCell(df, name, Good(_)) ==
    HasCol(df, name) /\ \E r \in 1..Len(df.data) : Good(Col(df, name)[r])
Present(cell) == cell # <<>>
AllDigits(cell) == cell # <<>> /\ \A i \in 1..Len(cell) : cell[i] \in DOMAIN DigitVal
HasDigit(cell) == \E i \in 1..Len(cell) : cell[i] \in DOMAIN DigitVal
\* the keys a run on df owes: the source columns are there and some row counts
OwedKeys(df) ==
    {k \in KeySet :
        \/ k = "top_genres" /\ SomeCell(df, c_listed_in, Present)
        \/ k = "top_directors" /\ SomeCell(df, c_director, Present)
        \/ k = "rating_distribution" /\ SomeCell(df, c_rating, Present)
        \/ k = "titles_per_year" /\ SomeCell(df, c_release_year, AllDigits)
        \/ k = "type_count" /\ SomeCell(df, c_type, Present)
        \/ k = "avg_movie_duration" /\ HasCol(df, c_type) /\ HasCol(df, c_duration)
             /\ \E r \in 1..Len(df.data) :
                   Present(Col(df, c_type)[r]) /\ HasDigit(Col(df, c_duration)[r])}

\* C7: on a table with any subset of the six metric columns run_report returns
\* without error, and its chart set holds a key exactly when the metric's source
\* columns are present and some row contributes to its aggregate.
C7_KeysFollowColumns ==
    req.op \in RunOps =>
        /\ resp.status = 200
        /\ {kp[1] : kp \in resp.plots} = OwedKeys(RunTable)
        /\ \A kp \in resp.plots : kp[2] = PlotPath(kp[1]) /\ Exists(fs, kp[2])

\* a table with type and genres but neither director nor duration, reported
C7_Witness ==
    /\ req.op = "generate_report" /\ resp.status = 200
    /\ ~HasCol(RunTable, c_director) /\ ~HasCol(RunTable, c_duration)
    /\ {kp[1] : kp \in resp.plots} = {"top_genres", "type_count"}

\* the pieces a multi-value cell lists: the stretches between ", " separators
PieceAt(cell, i, j) ==
    /\ 1 <= i /\ i <= j + 1 /\ j <= Len(cell)
    /\ i = 1 \/ (i >= 3 /\ cell[i - 2] = "," /\ cell[i - 1] = " ")
    /\ j = Len(cell) \/ (j + 2 <= Len(cell) /\ cell[j + 1] = "," /\ cell[j + 2] = " ")
    /\ \A m \in i..j : cell[m] # "," /\ cell[m] # " "
\* how often label is listed in the column, over all rows
GenreCount(col, label) ==
    Cardinality({<<r, i>> \in (1..Len(col)) \X (1..(Len(label) + 8)) :
                    /\ col[r] # <<>>
                    /\ PieceAt(col[r], i, i + Len(label) - 1)
                    /\ SubSeq(col[r], i, i + Len(label) - 1) = label})
DirectorCount(col, label) == Cardinality({r \in 1..Len(col) : col[r] = label})
\* ranking is a top-n of the counts Count gives the labels
IsTopN(ranking, n, labels, Count(_)) ==
    /\ Len(ranking) = IF Cardinality(labels) < n THEN Cardinality(labels) ELSE n
    /\ \A i \in 1..Len(ranking) :
          /\ ranking[i][1] \in labels
          /\ ranking[i][2] = Count(ranking[i][1])
          /\ \A j \in 1..Len(ranking) : i < j =>
                (ranking[i][2] >= ranking[j][2] /\ ranking[i][1] # ranking[j][1])
          /\ \A l \in labels :
                (\A j \in 1..Len(ranking) : ranking[j][1] # l) => Count(l) <= ranking[i][2]
GenreLabels(col) ==
    {SubSeq(col[r], i, j) : <<r, i, j>> \in
        {t \in (1..Len(col)) \X (1..4) \X (1..4) :
            col[t[1]] # <<>> /\ PieceAt(col[t[1]], t[2], t[3])}}
ChartData(key) == IF Exists(fs, PlotPath(key)) THEN fs[PlotPath(key)].data ELSE <<>>

\* C8: the top-genres and top-directors aggregates hold at most 10 entries in
\* non-increasing order of count, each count the number of times the label is
\* listed across the rows (genres, after splitting the cells on ", ") or the
\* number of rows naming it (directors, missing values left out), and no label
\* left out counts more than one kept; "Drama, Comedy" and "Drama" give
\* Drama 2, Comedy 1.
C8_TopTenByCount ==
    req.op \in RunOps =>
        /\ HasCol(RunTable, c_listed_in) =>
              /\ Len(ChartData("top_genres")) <= 10
              /\ IsTopN(ChartData("top_genres"), 10,
                        GenreLabels(Col(RunTable, c_listed_in)),
                        LAMBDA l : GenreCount(Col(RunTable, c_listed_in), l))
        /\ HasCol(RunTable, c_director) =>
              /\ Len(ChartData("top_directors")) <= 10
              /\ IsTopN(ChartData("top_directors"), 10,
                        Range(Col(RunTable, c_director)) \ {<<>>},
                        LAMBDA l : DirectorCount(Col(RunTable, c_director), l))
        /\ (HasCol(RunTable, c_listed_in)
            /\ Col(RunTable, c_listed_in) = << <<"D", ",", " ", "C">>, <<"D">> >>) =>
              ChartData("top_genres") = << <<<<"D">>, 2>>, <<<<"C">>, 1>> >>

\* a table listing more than ten genres and naming more than ten directors
C8_Witness ==
    /\ req.op \in RunOps /\ resp.status = 200
    /\ HasCol(RunTable, c_listed_in) /\ HasCol(RunTable, c_director)
    /\ Cardinality(GenreLabels(Col(RunTable, c_listed_in))) > 10
    /\ Cardinality(Range(Col(RunTable, c_director)) \ {<<>>}) > 10
    /\ Len(ChartData("top_genres")) = 10 /\ Len(ChartData("top_directors")) = 10
    /\ ChartData("top_genres")[1][2] > ChartData("top_genres")[10][2]

\* a document whose images come from the tables of two different runs
Mixed(doc) ==
    /\ doc.kind \in {"pdf", "pptx"}
    /\ \E i, j \in 1..Len(doc.images) :
          /\ doc.images[i] = Chart(AggregatesOf(CsvExt), doc.images[i].key)
          /\ doc.images[j] = Chart(AggregatesOf(CsvSmall), doc.images[j].key)

\* C9: pipeline runs are not isolated: no handler ever waits for another (a
\* free server process can start any request and a started request can always
\* take its next step, whatever the other processes are doing), all of them
\* writing the same fixed paths in place.
C9_NoIsolation ==
    \A w \in Workers :
        /\ CanStart(w) =>
              /\ ENABLED StartGenerate(w)
              /\ ENABLED StartUpload(w, "B.CSV", CsvSmall)
              /\ ENABLED StartGet(w, "pdf")
        /\ procs[w].pc # "idle" => ENABLED Step(w)
        /\ (procs[w].pc = "idle" /\ procs[w].n < MaxRequests) => CanStart(w)

\* a download that served a PDF mixing the charts of two runs, while the
\* other process is in the middle of rewriting the current dataset
C9_Witness ==
    /\ req.op = "get_report" /\ resp.status = 200
    /\ Mixed(resp.file)
    /\ \E w \in Workers : procs[w].pc = "copy_close" /\ fs[CURRENT].kind = "partial"

====
